---- MODULE Spec2Model ----
(***************************************************************************)
(* Model of the benchmark sweep controller of full_benchmark.py:          *)
(* the error classifier (get_known_error_code), the statistics reducer    *)
(* (collect_stats), the per-point pipeline (get_data_row), the grid       *)
(* traversal with partial persistence (main_inner) and the process entry  *)
(* point (main, __main__).                                                *)
(*                                                                         *)
(* Text is a sequence of symbols.  The two known error signatures are     *)
(* abbreviated to two-symbol patterns over a three-symbol alphabet: as    *)
(* with the real signatures neither is a substring of the other and both  *)
(* can occur in one line.  "\n" is the line separator.                    *)
(***************************************************************************)
EXTENDS Integers, Sequences, FiniteSets, TLC

(* ------------------------------ bounds -------------------------------- *)
\* longest error text of the classifier specification
MaxLen == 5
\* largest stop value of a range
MaxStop == 2
\* largest number of grid points of a sweep
MaxGrid == 4
\* largest number of trial rows a worker of the sweep emits
MaxTrials == 2

Alphabet == {"e", "t", "\n"}

RECURSIVE Texts(_)
Texts(n) ==
    IF n = 0 THEN {<< >>}
    ELSE LET shorter == Texts(n - 1)
         IN  shorter \cup {Append(s, c) : s \in {x \in shorter : Len(x) = n - 1}, c \in Alphabet}

(* ------------------------- error classifier --------------------------- *)
PatEmfile == <<"e", "t">>
PatTimeout == <<"t", "e">>

\* KNOWN_ERRORS in insertion order: (code, pattern)
KNOWN_ERRORS == << <<"emfile", PatEmfile>>, <<"timeout", PatTimeout>> >>

\* stderr.partition("\n")[0]: the text before the first line separator
RECURSIVE FirstLine(_)
FirstLine(s) ==
    IF s = << >> THEN << >>
    ELSE IF s[1] = "\n" THEN << >>
    ELSE <<s[1]>> \o FirstLine(Tail(s))

StartsWith(s, p) == Len(p) <= Len(s) /\ SubSeq(s, 1, Len(p)) = p

\* pattern in head
RECURSIVE Contains(_, _)
Contains(s, p) ==
    IF StartsWith(s, p) THEN TRUE
    ELSE IF s = << >> THEN FALSE
    ELSE Contains(Tail(s), p)

RECURSIVE FirstMatch(_, _)
FirstMatch(table, head) ==
    IF table = << >> THEN "None"
    ELSE IF Contains(head, table[1][2]) THEN table[1][1]
    ELSE FirstMatch(Tail(table), head)

\* mutant: the whole text is searched, not only its first line
get_known_error_code_anyline(stderr) == FirstMatch(KNOWN_ERRORS, stderr)

get_known_error_code(stderr) == FirstMatch(KNOWN_ERRORS, FirstLine(stderr))

(* ------------------------------ values -------------------------------- *)
\* A cell or a statistic: missing (NaN) or the exact rational num/den.
NaN == [nan |-> TRUE, num |-> 0, den |-> 1]

RECURSIVE GCD(_, _)
GCD(a, b) == IF b = 0 THEN a ELSE GCD(b, a % b)

Rat(n, d) ==
    LET g == GCD(n, d)
    IN  IF n = 0 THEN [nan |-> FALSE, num |-> 0, den |-> 1]
        ELSE [nan |-> FALSE, num |-> n \div g, den |-> d \div g]

IntVal(n) == Rat(n, 1)

(* --------------------------- trial tables ----------------------------- *)
\* A DataFrame: its column names and its rows, each a function on the columns.
Metrics == {"setup_ms", "time_ms"}
ExtraMetric == "extra_ms"
EchoCols == {"n_files", "n_parallel"}

\* make_empty_data: 3 rows of missing setup_ms and time_ms
EmptyRows == 3

\* mutant: the synthetic table holds zeros
make_empty_data_zeros ==
    [cols |-> Metrics, trials |-> [i \in 1..EmptyRows |-> [c \in Metrics |-> IntVal(0)]]]

\* mutant: the synthetic table has a single metric column
make_empty_data_one_column ==
    [cols |-> {"time_ms"}, trials |-> [i \in 1..EmptyRows |-> [c \in {"time_ms"} |-> NaN]]]

make_empty_data ==
    [cols |-> Metrics, trials |-> [i \in 1..EmptyRows |-> [c \in Metrics |-> NaN]]]

\* csv.drop(columns=...)
Drop(data, columns) ==
    [cols |-> data.cols \ columns,
     trials |-> [i \in 1..Len(data.trials) |->
                    [c \in data.cols \ columns |-> data.trials[i][c]]]]

(* ------------------------- statistics reducer ------------------------- *)
STATS == <<"mean", "median", "min", "max", "std">>

\* mutant: a missing value counts as zero
RECURSIVE PresentOrZero(_, _)
PresentOrZero(trials, c) ==
    IF trials = << >> THEN << >>
    ELSE <<trials[1][c].num>> \o PresentOrZero(Tail(trials), c)

\* the present values of one column, in row order (pandas skips NaN)
RECURSIVE Present(_, _)
Present(trials, c) ==
    IF trials = << >> THEN << >>
    ELSE IF trials[1][c].nan THEN Present(Tail(trials), c)
    ELSE <<trials[1][c].num>> \o Present(Tail(trials), c)

RECURSIVE Sum(_)
Sum(xs) == IF xs = << >> THEN 0 ELSE xs[1] + Sum(Tail(xs))

RECURSIVE SumSq(_)
SumSq(xs) == IF xs = << >> THEN 0 ELSE xs[1] * xs[1] + SumSq(Tail(xs))

RECURSIVE Insert(_, _)
Insert(x, xs) ==
    IF xs = << >> THEN <<x>>
    ELSE IF x <= xs[1] THEN <<x>> \o xs
    ELSE <<xs[1]>> \o Insert(x, Tail(xs))

RECURSIVE Sorted(_)
Sorted(xs) == IF xs = << >> THEN << >> ELSE Insert(xs[1], Sorted(Tail(xs)))

\* One statistic of the present values xs of a column.  "std" is the sample
\* standard deviation (ddof = 1); the value kept is the exact rational under
\* the square root, so std = 0 exactly when the kept value is 0.
Stat(stat, xs) ==
    LET n == Len(xs)
        ys == Sorted(xs)
    IN  IF n = 0 THEN NaN
        ELSE CASE stat = "mean" -> Rat(Sum(xs), n)
               [] stat = "median" ->
                      IF n % 2 = 1 THEN IntVal(ys[(n + 1) \div 2])
                      ELSE Rat(ys[n \div 2] + ys[n \div 2 + 1], 2)
               [] stat = "min" -> IntVal(ys[1])
               [] stat = "max" -> IntVal(ys[n])
               [] stat = "std" ->
                      IF n = 1 THEN NaN
                      ELSE Rat(n * SumSq(xs) - Sum(xs) * Sum(xs), n * (n - 1))

Range(f) == {f[i] : i \in DOMAIN f}

\* the (column, statistic) pairs of the result and their values
collect_stats(data, stats) ==
    [k \in data.cols \X Range(stats) |-> Stat(k[2], Present(data.trials, k[1]))]

(* -------------------------- per-point pipeline ------------------------ *)
\* A finished worker process: exit is "zero" or "nonzero", stderr its error
\* text, csv the table parsed from its standard output.
NoTable == [cols |-> {}, trials |-> << >>]
NoRow == [stats |-> << >>, status |-> "None", n_files |-> 0, n_parallel |-> 0]

\* mutant: only the first trial row is compared
FirstEqual(csv, col, value) ==
    csv.trials = << >> \/ csv.trials[1][col] = IntVal(value)

\* all(csv[col] == value)
AllEqual(csv, col, value) ==
    \A t \in 1..Len(csv.trials) : csv.trials[t][col] = IntVal(value)

\* mutant: the two coordinates are attached to each other's key
MakeRowSwapped(csv, status, n_files, n_parallel) ==
    [stats |-> collect_stats(csv, STATS), status |-> status,
     n_files |-> n_parallel, n_parallel |-> n_files]

MakeRow(csv, status, n_files, n_parallel) ==
    [stats |-> collect_stats(csv, STATS), status |-> status,
     n_files |-> n_files, n_parallel |-> n_parallel]

\* mutant: a failure is converted to a sentinel row whatever its text
get_data_row_swallow(proc, n_files, n_parallel) ==
    IF proc.exit = "nonzero"
    THEN LET status == get_known_error_code(proc.stderr)
         IN  [raised |-> "None",
              row |-> MakeRow(make_empty_data,
                              IF status = "None" THEN "emfile" ELSE status,
                              n_files, n_parallel)]
    ELSE IF ~AllEqual(proc.csv, "n_files", n_files)
              \/ ~AllEqual(proc.csv, "n_parallel", n_parallel)
    THEN [raised |-> "AssertionError", row |-> NoRow]
    ELSE [raised |-> "None",
          row |-> MakeRow(Drop(proc.csv, EchoCols), "ok", n_files, n_parallel)]

\* mutant: a known failure is re-raised like an unknown one
get_data_row_reraise(proc, n_files, n_parallel) ==
    IF proc.exit = "nonzero"
    THEN [raised |-> "CalledProcessError", row |-> NoRow]
    ELSE IF ~AllEqual(proc.csv, "n_files", n_files)
              \/ ~AllEqual(proc.csv, "n_parallel", n_parallel)
    THEN [raised |-> "AssertionError", row |-> NoRow]
    ELSE [raised |-> "None",
          row |-> MakeRow(Drop(proc.csv, EchoCols), "ok", n_files, n_parallel)]

\* raised is the exception that leaves get_data_row ("None": it returns row)
get_data_row(proc, n_files, n_parallel) ==
    IF proc.exit = "nonzero"
    THEN LET status == get_known_error_code(proc.stderr)
         IN  IF status = "None"
             THEN [raised |-> "CalledProcessError", row |-> NoRow]
             ELSE [raised |-> "None",
                   row |-> MakeRow(make_empty_data, status, n_files, n_parallel)]
    ELSE IF ~AllEqual(proc.csv, "n_files", n_files)
              \/ ~AllEqual(proc.csv, "n_parallel", n_parallel)
    THEN [raised |-> "AssertionError", row |-> NoRow]
    ELSE [raised |-> "None",
          row |-> MakeRow(Drop(proc.csv, EchoCols), "ok", n_files, n_parallel)]

\* the keys of a row (a pandas Series): its statistics and its metadata
MetaKeys == {<<"status", "">>, <<"n_files", "">>, <<"n_parallel", "">>}
RowKeys(row) == DOMAIN row.stats \cup MetaKeys

(* --------------------------- report writer ---------------------------- *)
\* pd.DataFrame(rows).to_csv(output, sep="\t", na_rep=na_rep): the columns
\* are the union of the rows' statistic keys; a key a row lacks is missing.
\* A missing value is written as na_rep; the digits of a present value are
\* not modelled (field "<number>").
Field(v, na_rep) ==
    IF v.nan THEN [field |-> na_rep, value |-> NaN]
    ELSE [field |-> "<number>", value |-> v]

\* mutant: the last row is not written
to_csv_short(rs, na_rep) ==
    LET columns == UNION {DOMAIN rs[r].stats : r \in 1..(Len(rs) - 1)}
    IN  [na_rep |-> na_rep,
         columns |-> columns,
         lines |-> [r \in 1..(Len(rs) - 1) |->
            [cells |-> [k \in columns |->
                          IF k \in DOMAIN rs[r].stats
                          THEN Field(rs[r].stats[k], na_rep)
                          ELSE Field(NaN, na_rep)],
             status |-> rs[r].status,
             n_files |-> rs[r].n_files,
             n_parallel |-> rs[r].n_parallel]]]

to_csv(rs, na_rep) ==
    LET columns == UNION {DOMAIN rs[r].stats : r \in 1..Len(rs)}
    IN  [na_rep |-> na_rep,
         columns |-> columns,
         lines |-> [r \in 1..Len(rs) |->
            [cells |-> [k \in columns |->
                          IF k \in DOMAIN rs[r].stats
                          THEN Field(rs[r].stats[k], na_rep)
                          ELSE Field(NaN, na_rep)],
             status |-> rs[r].status,
             n_files |-> rs[r].n_files,
             n_parallel |-> rs[r].n_parallel]]]

(* ------------------------------- state -------------------------------- *)
VARIABLES
    nvim,            \* args.nvim: TRUE when an executable was found
    files_range,     \* the outer range, as the sequence of its values
    parallel_range,  \* the inner range
    pc,              \* where the process is
    i,               \* position of the outer loop in files_range
    j,               \* position of the inner loop in parallel_range
    rows,            \* the accumulator of main_inner
    dirs,            \* the fixture directories that exist
    made,            \* how many fixture directories were created so far
    proc,            \* the worker process that ran last
    invocations,     \* every worker invocation so far, in order
    sink,            \* every table written to output, in order
    exc,             \* the exception in flight, or the one main handled
    stderr_log,      \* what was printed to sys.stderr
    exit_status,     \* exit status of the process, -1 while it runs
    text,            \* classifier specification: the error text
    code,            \* classifier specification: the code returned for text
    call,            \* row specification: a grid point and two worker processes
    ret              \* row specification: what get_data_row made of each

sweepVars == <<nvim, files_range, parallel_range, pc, i, j, rows, dirs, made,
               proc, invocations, sink, exc, stderr_log, exit_status>>
fnVars == <<text, code, call, ret>>
vars == <<sweepVars, fnVars>>

(* ------------------------------- inputs ------------------------------- *)
Starts == {0, 1}
Strides == {1, 2}

\* range(start, stop, stride) for a positive stride
RECURSIVE PyRange(_, _, _)
PyRange(start, stop, stride) ==
    IF start >= stop THEN << >>
    ELSE <<start>> \o PyRange(start + stride, stop, stride)

Ranges == {PyRange(a, b, c) : a \in Starts, b \in 0..MaxStop, c \in Strides}

\* error texts of the workers of a sweep: every text of at most two symbols,
\* and each known signature on the second line of a text
SweepTexts ==
    Texts(Len(PatEmfile)) \cup {<<"\n">> \o KNOWN_ERRORS[k][2] : k \in DOMAIN KNOWN_ERRORS}

\* tables of the workers of a sweep at the point (n_files, n_parallel): one
\* to MaxTrials trials, trial t measuring t for every metric and echoing
\* the point or, where off is 1, the value one larger
SweepTables(n_files, n_parallel) ==
    UNION {{[cols |-> Metrics \cup EchoCols,
             trials |-> [t \in 1..n |->
                [c \in Metrics \cup EchoCols |->
                   CASE c = "n_files" -> IntVal(n_files + off[t][1])
                     [] c = "n_parallel" -> IntVal(n_parallel + off[t][2])
                     [] OTHER -> IntVal(t)]]] :
            off \in [1..n -> {0, 1} \X {0, 1}]} : n \in 1..MaxTrials}

WorkerRuns(n_files, n_parallel) ==
    {[exit |-> "nonzero", stderr |-> t, csv |-> NoTable] : t \in SweepTexts}
    \cup {[exit |-> "zero", stderr |-> << >>, csv |-> c] :
             c \in SweepTables(n_files, n_parallel)}

NoProc == [exit |-> "none", stderr |-> << >>, csv |-> NoTable]
NoExc == [type |-> "None", stderr |-> << >>]
NoCall == [n_files |-> 0, n_parallel |-> 0, ok |-> NoProc, fail |-> NoProc]
NoRet == [raised |-> "unset", row |-> NoRow]

\* the subclasses of Exception among the exceptions of the model
ExceptionTypes == {"CalledProcessError", "AssertionError", "ValueError", "OSError"}

(* -------------------------------- sweep ------------------------------- *)
Init ==
    /\ nvim \in BOOLEAN
    /\ files_range \in Ranges
    /\ parallel_range \in Ranges
    /\ Len(files_range) * Len(parallel_range) <= MaxGrid
    /\ pc = "main"
    /\ i = 1
    /\ j = 1
    /\ rows = << >>
    /\ dirs = {}
    /\ made = 0
    /\ proc = NoProc
    /\ invocations = << >>
    /\ sink = << >>
    /\ exc = NoExc
    /\ stderr_log = << >>
    /\ exit_status = -1
    /\ text = << >>
    /\ code = "unset"
    /\ call = NoCall
    /\ ret = [ok |-> NoRet, fail |-> NoRet]

\* main, up to the call of main_inner
MainStart ==
    /\ pc = "main"
    /\ IF nvim
       THEN pc' = "outer" /\ exc' = exc
       ELSE pc' = "main_raised" /\ exc' = [type |-> "OSError", stderr |-> << >>]
    /\ UNCHANGED <<nvim, files_range, parallel_range, i, j, rows, dirs, made, proc,
                   invocations, sink, stderr_log, exit_status, fnVars>>

\* gendir: the entries 1.org .. n_files.org
gendir(n_files) == 1..n_files

CurrentDir == CHOOSE d \in dirs : d.id = made

\* one outer iteration begins: TemporaryDirectory() and gendir()
CreateFixture ==
    /\ pc = "outer"
    /\ i <= Len(files_range)
    /\ dirs' = dirs \cup {[id |-> made + 1, entries |-> gendir(files_range[i])]}
    /\ made' = made + 1
    /\ j' = 1
    /\ pc' = "inner"
    /\ UNCHANGED <<nvim, files_range, parallel_range, i, rows, proc, invocations,
                   sink, exc, stderr_log, exit_status, fnVars>>

Invocation(n_files, n_parallel) ==
    [dir |-> made, n_files |-> n_files, n_parallel |-> n_parallel]

\* mutant: after a known failure the same point is tried again
EvaluatePointRetry ==
    /\ pc = "inner"
    /\ j <= Len(parallel_range)
    /\ \E p \in WorkerRuns(files_range[i], parallel_range[j]) :
          LET r == get_data_row(p, files_range[i], parallel_range[j])
          IN  /\ proc' = p
              /\ invocations' =
                    Append(invocations, Invocation(files_range[i], parallel_range[j]))
              /\ IF r.raised = "None" /\ r.row.status = "ok"
                 THEN /\ rows' = Append(rows, r.row)
                      /\ j' = j + 1
                      /\ UNCHANGED <<pc, exc>>
                 ELSE IF r.raised = "None"
                 THEN UNCHANGED <<rows, j, pc, exc>>
                 ELSE /\ exc' = [type |-> r.raised, stderr |-> p.stderr]
                      /\ pc' = "unwind"
                      /\ UNCHANGED <<rows, j>>
    /\ UNCHANGED <<nvim, files_range, parallel_range, i, dirs, made, sink,
                   stderr_log, exit_status, fnVars>>

\* one inner iteration: get_data_row() and rows.append()
EvaluatePoint ==
    /\ pc = "inner"
    /\ j <= Len(parallel_range)
    /\ \E p \in WorkerRuns(files_range[i], parallel_range[j]) :
          LET r == get_data_row(p, files_range[i], parallel_range[j])
          IN  /\ proc' = p
              /\ invocations' =
                    Append(invocations, Invocation(files_range[i], parallel_range[j]))
              /\ IF r.raised = "None"
                 THEN /\ rows' = Append(rows, r.row)
                      /\ j' = j + 1
                      /\ UNCHANGED <<pc, exc>>
                 ELSE /\ exc' = [type |-> r.raised, stderr |-> p.stderr]
                      /\ pc' = "unwind"
                      /\ UNCHANGED <<rows, j>>
    /\ UNCHANGED <<nvim, files_range, parallel_range, i, dirs, made, sink,
                   stderr_log, exit_status, fnVars>>

\* KeyboardInterrupt while subprocess.run() waits for the worker
Interrupt ==
    /\ pc = "inner"
    /\ j <= Len(parallel_range)
    /\ proc' = [exit |-> "interrupted", stderr |-> << >>, csv |-> NoTable]
    /\ invocations' = Append(invocations, Invocation(files_range[i], parallel_range[j]))
    /\ exc' = [type |-> "KeyboardInterrupt", stderr |-> << >>]
    /\ pc' = "unwind"
    /\ UNCHANGED <<nvim, files_range, parallel_range, i, j, rows, dirs, made, sink,
                   stderr_log, exit_status, fnVars>>

\* mutant: the report is written at the end of every outer iteration
ReleaseFixtureFlush ==
    /\ pc = "inner"
    /\ j > Len(parallel_range)
    /\ dirs' = dirs \ {CurrentDir}
    /\ i' = i + 1
    /\ pc' = "outer"
    /\ sink' = IF rows /= << >> THEN Append(sink, to_csv(rows, "nan")) ELSE sink
    /\ UNCHANGED <<nvim, files_range, parallel_range, j, rows, made, proc,
                   invocations, exc, stderr_log, exit_status, fnVars>>

\* mutant: the directory is left behind when the inner loop ends
ReleaseFixtureKeep ==
    /\ pc = "inner"
    /\ j > Len(parallel_range)
    /\ i' = i + 1
    /\ pc' = "outer"
    /\ UNCHANGED <<nvim, files_range, parallel_range, j, rows, dirs, made, proc,
                   invocations, sink, exc, stderr_log, exit_status, fnVars>>

\* the inner loop is exhausted: the with block ends and removes the directory
ReleaseFixture ==
    /\ pc = "inner"
    /\ j > Len(parallel_range)
    /\ dirs' = dirs \ {CurrentDir}
    /\ i' = i + 1
    /\ pc' = "outer"
    /\ UNCHANGED <<nvim, files_range, parallel_range, j, rows, made, proc,
                   invocations, sink, exc, stderr_log, exit_status, fnVars>>

\* mutant: the directory is not removed when an exception leaves the loop
UnwindFixtureLeak ==
    /\ pc = "unwind"
    /\ pc' = IF exc.type \in ExceptionTypes THEN "handler" ELSE "inner_raised"
    /\ UNCHANGED <<nvim, files_range, parallel_range, i, j, rows, dirs, made, proc,
                   invocations, sink, exc, stderr_log, exit_status, fnVars>>

\* an exception leaves the with block: TemporaryDirectory.__exit__ removes
\* the directory; "except Exception" catches the subclasses of Exception
UnwindFixture ==
    /\ pc = "unwind"
    /\ dirs' = dirs \ {CurrentDir}
    /\ pc' = IF exc.type \in ExceptionTypes THEN "handler" ELSE "inner_raised"
    /\ UNCHANGED <<nvim, files_range, parallel_range, i, j, rows, made, proc,
                   invocations, sink, exc, stderr_log, exit_status, fnVars>>

\* mutant: the handler writes the accumulator even when it is empty
ExceptHandlerAlwaysWrites ==
    /\ pc = "handler"
    /\ sink' = Append(sink, to_csv(rows, ""))
    /\ pc' = "inner_raised"
    /\ UNCHANGED <<nvim, files_range, parallel_range, i, j, rows, dirs, made, proc,
                   invocations, exc, stderr_log, exit_status, fnVars>>

\* mutant: the handler saves nothing
ExceptHandlerNoSave ==
    /\ pc = "handler"
    /\ pc' = "inner_raised"
    /\ UNCHANGED <<nvim, files_range, parallel_range, i, j, rows, dirs, made, proc,
                   invocations, sink, exc, stderr_log, exit_status, fnVars>>

\* except Exception: save what data we can, then raise
ExceptHandler ==
    /\ pc = "handler"
    /\ sink' = IF rows /= << >> THEN Append(sink, to_csv(rows, "")) ELSE sink
    /\ pc' = "inner_raised"
    /\ UNCHANGED <<nvim, files_range, parallel_range, i, j, rows, dirs, made, proc,
                   invocations, exc, stderr_log, exit_status, fnVars>>

\* mutant: an empty accumulator is written like any other
FinishNoCheck ==
    /\ pc = "outer"
    /\ i > Len(files_range)
    /\ sink' = Append(sink, to_csv(rows, "nan"))
    /\ pc' = "inner_returned"
    /\ UNCHANGED <<nvim, files_range, parallel_range, i, j, rows, dirs, made, proc,
                   invocations, exc, stderr_log, exit_status, fnVars>>

\* the outer loop is exhausted: "no data", or the full report
Finish ==
    /\ pc = "outer"
    /\ i > Len(files_range)
    /\ IF rows = << >>
       THEN /\ exc' = [type |-> "ValueError", stderr |-> << >>]
            /\ pc' = "inner_raised"
            /\ sink' = sink
       ELSE /\ sink' = Append(sink, to_csv(rows, "nan"))
            /\ pc' = "inner_returned"
            /\ exc' = exc
    /\ UNCHANGED <<nvim, files_range, parallel_range, i, j, rows, dirs, made, proc,
                   invocations, stderr_log, exit_status, fnVars>>

\* main, after main_inner: except subprocess.CalledProcessError
MainAfter ==
    /\ pc \in {"inner_raised", "inner_returned"}
    /\ IF pc = "inner_returned"
       THEN pc' = "main_returned_0" /\ stderr_log' = stderr_log
       ELSE IF exc.type = "CalledProcessError"
       THEN /\ pc' = "main_returned_1"
            /\ stderr_log' = stderr_log \o
                  <<[kind |-> "traceback", text |-> << >>],
                    [kind |-> "separator", text |-> << >>],
                    [kind |-> "captured", text |-> exc.stderr]>>
       ELSE pc' = "main_raised" /\ stderr_log' = stderr_log
    /\ UNCHANGED <<nvim, files_range, parallel_range, i, j, rows, dirs, made, proc,
                   invocations, sink, exc, exit_status, fnVars>>

\* if __name__ == "__main__": main(sys.argv[1:]) - the value main returns is
\* dropped; an exception that leaves main is printed by the interpreter,
\* which then exits with status 1
EntryPoint ==
    /\ pc \in {"main_returned_0", "main_returned_1", "main_raised"}
    /\ exit_status' = IF pc = "main_raised" THEN 1 ELSE 0
    /\ stderr_log' = IF pc = "main_raised"
                     THEN Append(stderr_log, [kind |-> "traceback", text |-> << >>])
                     ELSE stderr_log
    /\ pc' = "exited"
    /\ UNCHANGED <<nvim, files_range, parallel_range, i, j, rows, dirs, made, proc,
                   invocations, sink, exc, fnVars>>

Next ==
    \/ MainStart
    \/ CreateFixture
    \/ EvaluatePoint
    \/ Interrupt
    \/ ReleaseFixture
    \/ UnwindFixture
    \/ ExceptHandler
    \/ Finish
    \/ MainAfter
    \/ EntryPoint

Spec == Init /\ [][Next]_vars

(* ----------------------- classifier specification --------------------- *)
\* the variables of the sweep, at rest
SweepIdle(at) ==
    /\ nvim = TRUE
    /\ files_range = << >>
    /\ parallel_range = << >>
    /\ pc = at
    /\ i = 1
    /\ j = 1
    /\ rows = << >>
    /\ dirs = {}
    /\ made = 0
    /\ proc = NoProc
    /\ invocations = << >>
    /\ sink = << >>
    /\ exc = NoExc
    /\ stderr_log = << >>
    /\ exit_status = -1

InitClassify ==
    /\ text \in Texts(MaxLen)
    /\ code = "unset"
    /\ call = NoCall
    /\ ret = [ok |-> NoRet, fail |-> NoRet]
    /\ SweepIdle("classify")

Classify ==
    /\ pc = "classify"
    /\ code = "unset"
    /\ code' = get_known_error_code(text)
    /\ UNCHANGED <<text, call, ret, sweepVars>>

NextClassify == Classify

SpecClassify == InitClassify /\ [][NextClassify]_vars

(* -------------------------- row specification ------------------------- *)
\* tables of a worker at the point (n_files, n_parallel): with or without a
\* further metric column, one to MaxTrials trials, trial t measuring t or
\* nothing for every metric, the last trial echoing the point or, where off
\* is 1, the value one larger
RowTables(n_files, n_parallel) ==
    UNION {{[cols |-> ms \cup EchoCols,
             trials |-> [t \in 1..n |->
                [c \in ms \cup EchoCols |->
                   CASE c = "n_files" -> IntVal(n_files + (IF t = n THEN off[1] ELSE 0))
                     [] c = "n_parallel" -> IntVal(n_parallel + (IF t = n THEN off[2] ELSE 0))
                     [] OTHER -> IF present[t] THEN IntVal(t) ELSE NaN]]] :
            ms \in {Metrics, Metrics \cup {ExtraMetric}},
            present \in [1..n -> BOOLEAN],
            off \in {0, 1} \X {0, 1}} : n \in 1..MaxTrials}

InitRow ==
    /\ \E n_files \in 0..1, n_parallel \in 0..1 :
          /\ n_files /= n_parallel
          /\ \E c \in RowTables(n_files, n_parallel), t \in SweepTexts :
                call = [n_files |-> n_files, n_parallel |-> n_parallel,
                        ok |-> [exit |-> "zero", stderr |-> << >>, csv |-> c],
                        fail |-> [exit |-> "nonzero", stderr |-> t, csv |-> NoTable]]
    /\ ret = [ok |-> NoRet, fail |-> NoRet]
    /\ text = << >>
    /\ code = "unset"
    /\ SweepIdle("rows")

\* get_data_row for the worker that exits zero
RowOfSuccess ==
    /\ pc = "rows"
    /\ ret.ok = NoRet
    /\ ret' = [ret EXCEPT !.ok = get_data_row(call.ok, call.n_files, call.n_parallel)]
    /\ UNCHANGED <<text, code, call, sweepVars>>

\* get_data_row for the worker that exits non-zero
RowOfFailure ==
    /\ pc = "rows"
    /\ ret.fail = NoRet
    /\ ret' = [ret EXCEPT !.fail = get_data_row(call.fail, call.n_files, call.n_parallel)]
    /\ UNCHANGED <<text, code, call, sweepVars>>

NextRow == RowOfSuccess \/ RowOfFailure

SpecRow == InitRow /\ [][NextRow]_vars

(* ------------------------------ properties ---------------------------- *)
\* the rows of the output sink: the lines of every table written, in order
RECURSIVE LinesOf(_)
LinesOf(tables) ==
    IF tables = << >> THEN << >> ELSE tables[1].lines \o LinesOf(Tail(tables))

SinkLines == LinesOf(sink)

\* a written line holds the data of a row
LineHolds(line, row) ==
    /\ line.status = row.status
    /\ line.n_files = row.n_files
    /\ line.n_parallel = row.n_parallel
    /\ \A k \in DOMAIN row.stats : line.cells[k].value = row.stats[k]

\* the grid in traversal order: outer = files, inner = parallel
Grid ==
    [m \in 1..(Len(files_range) * Len(parallel_range)) |->
        <<files_range[((m - 1) \div Len(parallel_range)) + 1],
          parallel_range[((m - 1) % Len(parallel_range)) + 1]>>]

\* the first line of a text ends before position LineEnd(t) + 1
LineEnd(t) ==
    IF \E k \in 1..Len(t) : t[k] = "\n"
    THEN (CHOOSE k \in 1..Len(t) : t[k] = "\n" /\ \A m \in 1..(k - 1) : t[m] /= "\n") - 1
    ELSE Len(t)

\* pat is a substring of t between the positions from and to
OccursIn(pat, t, from, to) ==
    \E k \in from..(to - Len(pat) + 1) : SubSeq(t, k, k + Len(pat) - 1) = pat

Signature(t) ==
    IF OccursIn(PatEmfile, t, 1, LineEnd(t)) THEN "emfile"
    ELSE IF OccursIn(PatTimeout, t, 1, LineEnd(t)) THEN "timeout"
    ELSE "None"

\* this step is a worker invocation that ran to its exit
Evaluated == pc = "inner" /\ Len(invocations') = Len(invocations) + 1
                /\ proc'.exit \in {"zero", "nonzero"}

\* the exceptions a worker's behaviour raises in get_data_row
WorkerErrors == {"CalledProcessError", "AssertionError"}

\* C1: when main_inner is aborted by an error at a grid point after N rows
\* were accumulated, then as the error leaves main_inner the output sink
\* holds exactly those N rows, in order: the rows of the N points before the
\* failing one and nothing for the failing point or a later one.
C1_PartialRowsPersisted ==
    (pc = "inner_raised" /\ exc.type \in WorkerErrors) =>
        /\ Len(rows) = Len(invocations) - 1
        /\ Len(SinkLines) = Len(rows)
        /\ \A r \in 1..Len(rows) :
              /\ LineHolds(SinkLines[r], rows[r])
              /\ <<rows[r].n_files, rows[r].n_parallel>> = Grid[r]

C1_Witness ==
    /\ pc = "inner_raised"
    /\ exc.type = "CalledProcessError"
    /\ Len(rows) = 2
    /\ Len(SinkLines) = 2
    /\ Len(Grid) = 4

\* C2: a worker failure whose first line holds a known signature does not
\* abort the sweep: a row with the matching sentinel status is appended, no
\* exception is raised and control moves on to the next grid point.
C2_KnownFailureContinues ==
    [][(Evaluated /\ proc'.exit = "nonzero" /\ Signature(proc'.stderr) /= "None") =>
          /\ Len(rows') = Len(rows) + 1
          /\ SubSeq(rows', 1, Len(rows)) = rows
          /\ rows'[Len(rows')].status = Signature(proc'.stderr)
          /\ exc' = NoExc
          /\ pc' = "inner"
          /\ i' = i
          /\ j' = j + 1]_vars

C2_Witness ==
    /\ Len(rows) = 2
    /\ rows[1].status = "timeout"
    /\ rows[2].status = "ok"
    /\ invocations[2] = [dir |-> 1, n_files |-> Grid[2][1], n_parallel |-> Grid[2][2]]

\* C3: a worker failure whose first line holds no known signature is raised
\* again as it is and leaves the grid traversal at once: no row is appended
\* for the point and no worker is invoked for a later point.
C3_UnknownFailurePropagates ==
    [][/\ (Evaluated /\ proc'.exit = "nonzero" /\ Signature(proc'.stderr) = "None") =>
             /\ rows' = rows
             /\ exc' = [type |-> "CalledProcessError", stderr |-> proc'.stderr]
             /\ pc' = "unwind"
       /\ (exc.type = "CalledProcessError") =>
             /\ rows' = rows
             /\ invocations' = invocations
             /\ exc' = exc
             /\ pc' \notin {"inner", "outer", "inner_returned"}]_vars

C3_Witness ==
    /\ pc = "inner_raised"
    /\ exc.type = "CalledProcessError"
    /\ Len(rows) = 1
    /\ Len(invocations) = 2
    /\ Len(Grid) = 4
    /\ OccursIn(PatEmfile, exc.stderr, 1, Len(exc.stderr))

\* C4: get_known_error_code returns the first code in table order (emfile,
\* then timeout) whose pattern is a substring of the first line of the text,
\* and no code when no pattern occurs in the first line, whatever follows
\* the first newline.
C4_FirstLineFirstMatch ==
    code /= "unset" => code = Signature(text)

C4_Witness ==
    /\ code = "None"
    /\ LineEnd(text) < Len(text)
    /\ OccursIn(PatEmfile, text, LineEnd(text) + 1, Len(text))

\* C5: with an empty outer or inner range main_inner raises the
\* configuration error, invokes no worker and writes no row.
C5_EmptyGridIsConfigError ==
    (nvim /\ (files_range = << >> \/ parallel_range = << >>)) =>
        /\ invocations = << >>
        /\ SinkLines = << >>
        /\ pc \notin {"inner_returned", "main_returned_0", "main_returned_1"}
        /\ (pc \in {"inner_raised", "main_raised", "exited"} => exc.type = "ValueError")

C5_Witness ==
    /\ files_range /= << >>
    /\ parallel_range = << >>
    /\ pc = "inner_raised"
    /\ exc.type = "ValueError"
    /\ made = Len(files_range)

\* the table echoes a value that differs from the point in some trial
Mismatch(csv, n_files, n_parallel) ==
    \E t \in 1..Len(csv.trials) :
        \/ csv.trials[t]["n_files"] /= IntVal(n_files)
        \/ csv.trials[t]["n_parallel"] /= IntVal(n_parallel)

\* C6: a worker that exits zero and echoes, in any trial row, an n_files or
\* n_parallel other than the point under evaluation is fatal: no row is
\* appended for the point and the sweep aborts there with the assertion
\* failure, which nothing turns into a row afterwards.
C6_MismatchIsFatal ==
    [][/\ (Evaluated /\ proc'.exit = "zero"
              /\ Mismatch(proc'.csv, files_range[i], parallel_range[j])) =>
             /\ rows' = rows
             /\ exc'.type = "AssertionError"
             /\ pc' = "unwind"
       /\ (exc.type = "AssertionError") =>
             /\ rows' = rows
             /\ invocations' = invocations
             /\ exc' = exc
             /\ pc' \notin {"inner", "outer", "inner_returned",
                            "main_returned_0", "main_returned_1"}]_vars

C6_Witness ==
    /\ pc = "main_raised"
    /\ exc.type = "AssertionError"
    /\ Len(proc.csv.trials) = 2
    /\ proc.csv.trials[1]["n_parallel"] = IntVal(invocations[Len(invocations)].n_parallel)
    /\ proc.csv.trials[2]["n_parallel"] /= IntVal(invocations[Len(invocations)].n_parallel)
    /\ proc.csv.trials[2]["n_files"] = IntVal(invocations[Len(invocations)].n_files)
    /\ Len(rows) = 1

Emitted(kind) == \E n \in 1..Len(stderr_log) : stderr_log[n].kind = kind

\* C7: when the sweep fails fatally, the unrecognized worker failure that
\* main catches included, the diagnostic text and a separator are on the
\* error channel and the process ends with a non-zero exit status; on
\* success it ends with exit status zero.
C7_ExitStatusSignalsFailure ==
    pc = "exited" =>
        IF exc.type = "None"
        THEN exit_status = 0
        ELSE /\ exit_status /= 0
             /\ Emitted("traceback")
             /\ (exc.type = "CalledProcessError" =>
                    Emitted("separator") /\ Emitted("captured"))

\* C8: every table main_inner writes, the partial one of the abort path like
\* the full one, holds the token nan for each missing value, never an empty
\* field.
C8_MissingWrittenAsNan ==
    \A w \in 1..Len(sink) : \A r \in 1..Len(sink[w].lines) :
        \A k \in sink[w].columns :
            sink[w].lines[r].cells[k].value.nan =>
                sink[w].lines[r].cells[k].field = "nan"

\* C9: an interrupt raised while a grid point is evaluated takes the
\* partial-persistence path: the rows accumulated so far are in the output
\* sink when the interrupt leaves main_inner.
C9_InterruptPersistsRows ==
    (pc = "inner_raised" /\ exc.type = "KeyboardInterrupt") =>
        /\ Len(SinkLines) = Len(rows)
        /\ \A r \in 1..Len(rows) : LineHolds(SinkLines[r], rows[r])

\* the header satisfies the worker contract
ContractHeader(cols) == Metrics \cup EchoCols \subseteq cols
BothRows == ret.ok.raised = "None" /\ ret.fail.raised = "None"

\* C10 as stated: for every header that satisfies the worker contract,
\* further metric columns included, the row of a sentinel failure and the
\* row of a success have the same keys.
C10_SameKeysAnyHeader ==
    (BothRows /\ ContractHeader(call.ok.csv.cols)) =>
        RowKeys(ret.ok.row) = RowKeys(ret.fail.row)

\* C10 amended: when the metric columns of the worker output are exactly
\* setup_ms and time_ms, the row of a sentinel failure and the row of a
\* success have the same keys (the five statistics of both metrics, status,
\* n_files, n_parallel); with a further metric column the row of the success
\* has the five keys of that metric and the row of the failure lacks them.
C10_SameKeysTwoMetrics ==
    BothRows =>
        /\ RowKeys(ret.fail.row) = (Metrics \X Range(STATS)) \cup MetaKeys
        /\ RowKeys(ret.ok.row) =
              ((call.ok.csv.cols \ EchoCols) \X Range(STATS)) \cup MetaKeys
        /\ (call.ok.csv.cols = Metrics \cup EchoCols =>
               RowKeys(ret.ok.row) = RowKeys(ret.fail.row))

C10_Witness ==
    /\ BothRows
    /\ call.ok.csv.cols = Metrics \cup EchoCols
    /\ ret.ok.row.status = "ok"
    /\ ret.fail.row.status = "emfile"
    /\ Len(call.ok.csv.trials) = 2

\* C11: every row that is built, whatever its status (ok, emfile, timeout),
\* carries the n_files and n_parallel of the grid point that was requested,
\* so the r-th accumulated row has the coordinates of the r-th grid point in
\* traversal order.
C11_RowCarriesItsPoint ==
    /\ Len(rows) <= Len(invocations)
    /\ \A r \in 1..Len(rows) :
          /\ rows[r].status \in {"ok", "emfile", "timeout"}
          /\ rows[r].n_files = invocations[r].n_files
          /\ rows[r].n_parallel = invocations[r].n_parallel
          /\ <<rows[r].n_files, rows[r].n_parallel>> = Grid[r]

C11_Witness ==
    /\ Len(rows) = 4
    /\ rows[2].status = "emfile"
    /\ rows[2].n_files /= rows[2].n_parallel
    /\ rows[3].status = "ok"
    /\ rows[3].n_files /= rows[3].n_parallel
    /\ rows[4].status = "timeout"

\* C12: after a successful completion the report holds exactly one row per
\* grid point, Len(files_range) * Len(parallel_range) rows, in traversal
\* order: every inner value in range order for the first outer value, then
\* for the next outer value, and so on.
C12_FullReportInGridOrder ==
    pc = "inner_returned" =>
        /\ Len(sink) = 1
        /\ Len(sink[1].lines) = Len(files_range) * Len(parallel_range)
        /\ \A a \in 1..Len(files_range) : \A b \in 1..Len(parallel_range) :
              LET r == (a - 1) * Len(parallel_range) + b
              IN  /\ sink[1].lines[r].n_files = files_range[a]
                  /\ sink[1].lines[r].n_parallel = parallel_range[b]
                  /\ LineHolds(sink[1].lines[r], rows[r])

C12_Witness ==
    /\ pc = "inner_returned"
    /\ Len(files_range) = 2
    /\ Len(parallel_range) = 2
    /\ Len(sink[1].lines) = 4
    /\ sink[1].lines[2].status = "emfile"

\* the outer value whose directory the k-th invocation of the sweep uses
OuterOf(k) == ((k - 1) \div Len(parallel_range)) + 1

\* C13: each outer value gets a fresh directory holding exactly n_files
\* entries before its first inner value is evaluated, every invocation for
\* that outer value uses it, and it is removed after the last inner value,
\* before the directory of the next outer value is made, known failures
\* inside it or not; so at most one directory exists at any moment.
C13_FixtureScopedToOuterValue ==
    /\ Cardinality(dirs) <= 1
    /\ pc = "outer" => dirs = {}
    /\ pc = "inner" =>
          /\ made = i
          /\ dirs = {[id |-> i, entries |-> 1..files_range[i]]}
          /\ \A d \in dirs : Cardinality(d.entries) = files_range[i]
    /\ \A k \in 1..Len(invocations) :
          /\ invocations[k].dir = OuterOf(k)
          /\ invocations[k].n_files = files_range[OuterOf(k)]

C13_Witness ==
    /\ pc = "inner"
    /\ made = 2
    /\ files_range[i] = 1
    /\ Len(invocations) = 3
    /\ rows[2].status = "emfile"
    /\ \E d \in dirs : d.id = 2 /\ Cardinality(d.entries) = 1

\* C14: the row of a sentinel failure (emfile or timeout) has the sentinel
\* as its status and every statistic (mean, median, min, max, std) of every
\* metric missing, never a number, while n_files and n_parallel hold the
\* requested values.
C14_SentinelRowAllMissing ==
    ret.fail.raised = "None" =>
        /\ ret.fail.row.status = Signature(call.fail.stderr)
        /\ ret.fail.row.status \in {"emfile", "timeout"}
        /\ Metrics \X Range(STATS) \subseteq DOMAIN ret.fail.row.stats
        /\ \A k \in DOMAIN ret.fail.row.stats : ret.fail.row.stats[k] = NaN
        /\ ret.fail.row.n_files = call.n_files
        /\ ret.fail.row.n_parallel = call.n_parallel

C14_Witness ==
    /\ ret.fail.raised = "None"
    /\ ret.fail.row.status = "timeout"
    /\ ret.fail.row.stats[<<"time_ms", "std">>] = NaN
    /\ ret.fail.row.n_files = 1
    /\ ret.fail.row.n_parallel = 0

\* the success row was reduced from a table of one trial row
SingleRow == ret.ok.raised = "None" /\ Len(call.ok.csv.trials) = 1
Measured(m) == call.ok.csv.trials[1][m]

\* C15 as stated: reducing a single-row table gives, for every metric,
\* mean = median = min = max = the row's value and std = 0 when the value
\* is present, and all five statistics missing when it is missing.
C15_SingleRowStdZero ==
    SingleRow =>
        \A m \in call.ok.csv.cols \ EchoCols :
            /\ \A st \in {"mean", "median", "min", "max"} :
                  ret.ok.row.stats[<<m, st>>] = Measured(m)
            /\ ret.ok.row.stats[<<m, "std">>] =
                  IF Measured(m).nan THEN NaN ELSE IntVal(0)

\* C15 amended: reducing a single-row table gives, for every metric,
\* mean = median = min = max = the row's value when the value is present
\* and these four missing when it is missing; the standard deviation is
\* missing in both cases (it is the sample standard deviation, undefined
\* for one observation).
C15_SingleRowStdMissing ==
    SingleRow =>
        \A m \in call.ok.csv.cols \ EchoCols :
            /\ \A st \in {"mean", "median", "min", "max"} :
                  ret.ok.row.stats[<<m, st>>] = Measured(m)
            /\ ret.ok.row.stats[<<m, "std">>] = NaN

C15_Witness ==
    /\ SingleRow
    /\ Measured("time_ms") = IntVal(1)
    /\ ret.ok.row.stats[<<"time_ms", "mean">>] = IntVal(1)
    /\ ret.ok.row.stats[<<"time_ms", "std">>] = NaN

\* C16: every grid point that is reached causes exactly one worker
\* invocation, with no retry after any failure, and the invocations are
\* sequential: one starts only after the previous one has exited and its
\* row, if it yielded one, has been appended.
C16_OneInvocationPerPoint ==
    [][invocations' /= invocations =>
          /\ Len(invocations') = Len(invocations) + 1
          /\ Len(invocations') <= Len(files_range) * Len(parallel_range)
          /\ SubSeq(invocations', 1, Len(invocations)) = invocations
          /\ <<invocations'[Len(invocations')].n_files,
               invocations'[Len(invocations')].n_parallel>> = Grid[Len(invocations')]
          /\ proc.exit \in {"none", "zero", "nonzero"}
          /\ Len(rows) = Len(invocations)]_vars

C16_Witness ==
    /\ pc = "exited"
    /\ Len(invocations) = 4
    /\ Len(rows) = 3
    /\ rows[1].status = "emfile"
    /\ rows[3].status = "timeout"
    /\ exc.type = "CalledProcessError"

\* C17: in a run of main_inner the output sink is written at most once, the
\* partial table on the abort path or the full table on success and never
\* both, and only after the last worker invocation of the run: nothing is
\* written while the grid is traversed.
C17_SinkWrittenOnceAtTheEnd ==
    [][/\ Len(sink') <= 1
       /\ (pc' \in {"main", "outer", "inner", "unwind", "handler"} => sink' = << >>)
       /\ (sink /= << >> => sink' = sink /\ invocations' = invocations)
       /\ (sink' /= sink =>
              /\ invocations' = invocations
              /\ \/ pc = "handler" /\ pc' = "inner_raised" /\ sink'[1].na_rep = ""
                 \/ pc = "outer" /\ pc' = "inner_returned" /\ sink'[1].na_rep = "nan")]_vars

C17_Witness ==
    /\ pc = "exited"
    /\ Len(sink) = 1
    /\ sink[1].na_rep = ""
    /\ Len(sink[1].lines) = 2
    /\ Len(invocations) = 3
    /\ made = 2

\* C18: when an error raised inside the inner loop aborts the sweep, the
\* directory of the current outer value is removed before the partial
\* report is written, and once main_inner has been left that way no
\* directory made by the sweep remains.
C18_FixtureRemovedBeforePartialReport ==
    [][/\ (sink' /= sink /\ pc = "handler") => (dirs = {} /\ made >= 1)
       /\ (pc' \in {"handler", "inner_raised"} /\ invocations' /= << >>) => dirs' = {}]_vars

C18_Witness ==
    /\ pc = "inner_raised"
    /\ exc.type \in WorkerErrors
    /\ made = 2
    /\ dirs = {}
    /\ Len(sink) = 1
    /\ sink[1].na_rep = ""

\* C19: when the sweep aborts at the very first grid point, with no row
\* accumulated, main_inner writes nothing to the output sink, neither
\* header nor rows, and the error that leaves it is the original one, not
\* the "no data" error.
C19_AbortAtFirstPointWritesNothing ==
    (pc = "inner_raised" /\ Len(invocations) = 1) =>
        /\ rows = << >>
        /\ sink = << >>
        /\ exc.type \in WorkerErrors \cup {"KeyboardInterrupt"}
        /\ (exc.type = "CalledProcessError" => exc.stderr = proc.stderr)
        /\ (exc.type = "AssertionError" => proc.exit = "zero")

C19_Witness ==
    /\ pc = "inner_raised"
    /\ Len(invocations) = 1
    /\ exc.type = "CalledProcessError"
    /\ exc.stderr = <<"\n", "e", "t">>
    /\ Len(files_range) * Len(parallel_range) = 4
    /\ sink = << >>

====
